---- MODULE Spec2Model ----
(***************************************************************************)
(* The file ingestion and range-serving backend (express + multer):        *)
(* POST /api/upload, DELETE /api/delete/:name, GET /uploads/:fileName,     *)
(* GET /api/myfiles/:email, over the uploads directory and filedb.json.    *)
(*                                                                         *)
(* Strings the code takes apart (file names, storage keys, Range headers)  *)
(* are sequences of one-character strings; "bytes=" is kept as one token.  *)
(***************************************************************************)
EXTENDS Integers, Sequences, FiniteSets, TLC

\* ---------------------------------------------------------------- bounds
MaxClock == 2        \* Date.now() ranges over 1..MaxClock
MaxUploads == 2      \* descriptors in filedb.json plus uploads in flight (Spec)
MaxStreamUploads == 1  \* the same, where GET /uploads is streamed (SpecStream)
MaxSize == 2         \* largest uploaded payload, in bytes
MaxRangeNum == 2     \* Range headers are written with the numbers 0..MaxRangeNum 

\* ------------------------------------------------------- program constants
PORT == 5000
UPLOAD_DIR == <<"uploads/">>

\* ------------------------------------------------------------ JS values
\* req.headers.range / req.body.userEmail when the client sent none
UndefinedHdr == <<"undefined">>
UndefinedStr == "undefined"
\* parseInt's NaN; the parts of split("-") hold no sign, so parseInt never
\* yields a negative number and -1 is free to stand for NaN
NaN == -1

VARIABLES clock, store, filedb, inflight, resp
vars == <<clock, store, filedb, inflight, resp>>

\* --------------------------------------------------------- string helpers
Digit(d) == CASE d = 0 -> "0" [] d = 1 -> "1" [] d = 2 -> "2" [] d = 3 -> "3"
              [] d = 4 -> "4" [] d = 5 -> "5" [] d = 6 -> "6" [] d = 7 -> "7"
              [] d = 8 -> "8" [] d = 9 -> "9"

DigitVal(c) == CASE c = "0" -> 0 [] c = "1" -> 1 [] c = "2" -> 2 [] c = "3" -> 3
                 [] c = "4" -> 4 [] c = "5" -> 5 [] c = "6" -> 6 [] c = "7" -> 7
                 [] c = "8" -> 8 [] c = "9" -> 9

IsDigit(c) == c \in {"0", "1", "2", "3", "4", "5", "6", "7", "8", "9"}

IsSpace(c) == c \in {" ", "\t"}

\* Number -> its decimal string (template literal / string concatenation)
RECURSIVE Dec(_)
Dec(n) == IF n < 10 THEN <<Digit(n)>> ELSE Dec(n \div 10) \o <<Digit(n % 10)>>

\* String.prototype.split(sep): the pieces between the separators
RECURSIVE Split(_, _)
Split(s, sep) ==
  IF \E i \in 1..Len(s) : s[i] = sep
  THEN LET i == CHOOSE j \in 1..Len(s) :
                  s[j] = sep /\ \A k \in 1..(j - 1) : s[k] # sep
       IN  <<SubSeq(s, 1, i - 1)>> \o Split(SubSeq(s, i + 1, Len(s)), sep)
  ELSE <<s>>

\* parseInt(s, 10): skip leading white space, read the longest digit prefix,
\* NaN when there is none
RECURSIVE ParseDigits(_, _, _)
ParseDigits(s, i, acc) ==
  IF i <= Len(s) /\ IsDigit(s[i])
  THEN ParseDigits(s, i + 1, acc * 10 + DigitVal(s[i]))
  ELSE acc

RECURSIVE SkipSpace(_)
SkipSpace(s) == IF s # <<>> /\ IsSpace(Head(s)) THEN SkipSpace(Tail(s)) ELSE s

ParseInt(s) ==
  LET t == SkipSpace(s)
  IN  IF t # <<>> /\ IsDigit(t[1]) THEN ParseDigits(t, 1, 0) ELSE NaN

\* -------------------------------------------------------- Name Sanitizer
\* file.originalname.replace(/\s+/g, "_"): each maximal run of white space
\* becomes one underscore
RECURSIVE ReplaceSpaces(_)
ReplaceSpaces(s) ==
  IF s = <<>> THEN <<>>
  ELSE IF IsSpace(Head(s)) THEN <<"_">> \o ReplaceSpaces(SkipSpace(s))
  ELSE <<Head(s)>> \o ReplaceSpaces(Tail(s))

\* multer.diskStorage filename: Date.now() + "-" + sanitized original name
safeName(now, originalname) == Dec(now) \o <<"-">> \o ReplaceSpaces(originalname)

\* ---------------------------------------------------- Content-Type Resolver
ToLower(c) == CASE c = "M" -> "m" [] c = "P" -> "p" [] OTHER -> c

LowerCase(s) == [i \in 1..Len(s) |-> ToLower(s[i])]

VideoExt == {<<"m", "p", "4">>, <<"m", "o", "v">>, <<"w", "e", "b", "m">>}
ImageExt == {<<"p", "n", "g">>, <<"j", "p", "g">>, <<"j", "p", "e", "g">>,
             <<"g", "i", "f">>, <<"w", "e", "b", "p">>}

getMimeType(fileName) ==
  LET pieces == Split(fileName, ".")
      ext == LowerCase(pieces[Len(pieces)])
  IN  IF ext \in VideoExt THEN <<"video/">> \o ext
      ELSE IF ext \in ImageExt THEN <<"image/">> \o ext
      ELSE IF ext = <<"p", "d", "f">> THEN <<"application/pdf">>
      ELSE IF ext \in {<<"z", "i", "p">>, <<"r", "a", "r">>} THEN <<"application/zip">>
      ELSE <<"application/octet-stream">>

\* ------------------------------------------------------------ input sets
Payload(n) == [i \in 1..n |-> 10 + i]

\* the file parts a client may send: originalname, bytes, declared mimetype
FileParts ==
  { [originalname |-> <<"a", " ", "b">>, payload |-> Payload(MaxSize), mimetype |-> "text/plain"],
    [originalname |-> <<"a", "_", "b">>, payload |-> Payload(1), mimetype |-> "text/plain"],
    [originalname |-> <<"v", ".", "M", "P", "4">>, payload |-> Payload(0), mimetype |-> "video/mp4"] }

NoPart == [originalname |-> <<>>, payload |-> <<>>, mimetype |-> ""]

Emails == {UndefinedStr, "", "u1"}

\* multipart bodies: with a "file" part, or with scalar fields alone
UploadRequests ==
  { [hasFile |-> TRUE, part |-> p, userEmail |-> IF p.payload = <<>> THEN "" ELSE "u1"]
      : p \in FileParts }
    \cup {[hasFile |-> TRUE, part |-> p, userEmail |-> UndefinedStr]
            : p \in {q \in FileParts : Len(q.payload) = 1}}
    \cup {[hasFile |-> FALSE, part |-> NoPart, userEmail |-> "u1"]}

\* Range header values: absent, empty, and bytes=<start>[-<end>] with each
\* part a number, empty or not a number
RangeNums == 0..MaxRangeNum
RangeParts == {Dec(n) : n \in RangeNums} \cup {<<>>, <<"x">>}
RangeHeaders ==
  {UndefinedHdr, <<>>, <<"bytes=">> \o Dec(0) \o <<"-">> \o Dec(12)}
    \cup {<<"bytes=">> \o a : a \in RangeParts}
    \cup {<<"bytes=">> \o a \o <<"-">> \o b : a \in RangeParts, b \in RangeParts}

\* ------------------------------------------------------------ responses
NoResp == [op |-> "", by |-> "", status |-> 0, msg |-> "", crange |-> <<>>,
           accept |-> "", clen |-> -1, ctype |-> <<>>, body |-> <<>>, json |-> <<>>]

Reply(op, by, status, msg) ==
  [NoResp EXCEPT !.op = op, !.by = by, !.status = status, !.msg = msg]

\* ---------------------------------------------------------------- state
Init ==
  /\ clock = 1
  /\ store = [k \in {} |-> <<>>]                  \* the uploads directory, empty
  /\ filedb = [exists |-> FALSE, rows |-> <<>>]   \* filedb.json, not yet written
  /\ inflight = <<>>                              \* requests multer has parsed
  /\ resp = NoResp

\* Date.now() advances
Tick ==
  /\ clock < MaxClock
  /\ clock' = clock + 1
  /\ UNCHANGED <<store, filedb, inflight, resp>>

\* fs write of one file into the uploads directory (creates or truncates)
WriteFile(dir, key, bytes) ==
  [k \in DOMAIN dir \cup {key} |-> IF k = key THEN bytes ELSE dir[k]]

\* fs.unlinkSync
Unlink(dir, key) == [k \in DOMAIN dir \ {key} |-> dir[k]]

\* upload.single("file"): multer names the file part with the storage's
\* filename callback, writes it under UPLOAD_DIR and sets req.file; without a
\* file part it writes nothing and req.file stays undefined
MulterSingle(u) ==
  /\ LET filename == IF u.hasFile THEN safeName(clock, u.part.originalname) ELSE <<>>
     IN  /\ store' = IF u.hasFile THEN WriteFile(store, filename, u.part.payload) ELSE store
         /\ inflight' = Append(inflight,
                [hasFile |-> u.hasFile, originalname |-> u.part.originalname,
                 filename |-> filename, size |-> Len(u.part.payload),
                 mimetype |-> u.part.mimetype, userEmail |-> u.userEmail])
  /\ UNCHANGED <<clock, filedb, resp>>

\* the descriptor the upload handler builds
NewFile(f) ==
  [name |-> f.originalname,
   storedName |-> f.filename,
   size |-> f.size,
   type |-> f.mimetype,
   url |-> <<"http://localhost:">> \o Dec(PORT) \o <<"/uploads/">> \o f.filename,
   userEmail |-> IF f.userEmail \in {UndefinedStr, ""} THEN "unknown" ELSE f.userEmail]

\* LedgerPush without the read of the existing file
LedgerPushUnread(db, newFile) == [exists |-> TRUE, rows |-> <<newFile>>]

\* let db = []; if (existsSync) db = JSON.parse(readFileSync); db.push(newFile)
LedgerPush(db, newFile) ==
  [exists |-> TRUE, rows |-> Append(IF db.exists THEN db.rows ELSE <<>>, newFile)]

RemoveAt(s, i) == SubSeq(s, 1, i - 1) \o SubSeq(s, i + 1, Len(s))

\* UploadHandler without the check of req.file
UploadHandlerUnchecked(i) ==
  LET f == inflight[i]
  IN  /\ inflight' = RemoveAt(inflight, i)
      /\ filedb' = LedgerPush(filedb, NewFile(f))
      /\ resp' = [Reply("POST /api/upload", "upload", 200, "File uploaded successfully")
                    EXCEPT !.json = <<NewFile(f)>>]
      /\ UNCHANGED <<clock, store>>

\* app.post("/api/upload") handler, run once multer has finished with request i
UploadHandler(i) ==
  LET f == inflight[i]
  IN  /\ inflight' = RemoveAt(inflight, i)
      /\ IF ~f.hasFile
         THEN /\ resp' = Reply("POST /api/upload", "upload", 400, "No file uploaded")
              /\ UNCHANGED filedb
         ELSE /\ filedb' = LedgerPush(filedb, NewFile(f))
              /\ resp' = [Reply("POST /api/upload", "upload", 200, "File uploaded successfully")
                            EXCEPT !.json = <<NewFile(f)>>]
      /\ UNCHANGED <<clock, store>>

\* Delete without the existence check: unlinkSync throws on a missing file
DeleteUnchecked(name) ==
  /\ IF name \notin DOMAIN store
     THEN /\ resp' = Reply("DELETE /api/delete", "delete", 500, "Internal Server Error")
          /\ UNCHANGED store
     ELSE /\ store' = Unlink(store, name)
          /\ resp' = Reply("DELETE /api/delete", "delete", 200, "File deleted successfully")
  /\ UNCHANGED <<clock, filedb, inflight>>

\* app.delete("/api/delete/:name")
Delete(name) ==
  /\ IF name \notin DOMAIN store
     THEN /\ resp' = Reply("DELETE /api/delete", "delete", 404, "File not found")
          /\ UNCHANGED store
     ELSE /\ store' = Unlink(store, name)
          /\ resp' = Reply("DELETE /api/delete", "delete", 200, "File deleted successfully")
  /\ UNCHANGED <<clock, filedb, inflight>>

\* db.filter(f => f.userEmail === userEmail)
RECURSIVE Filter(_, _)
Filter(rows, email) ==
  IF rows = <<>> THEN <<>>
  ELSE (IF Head(rows).userEmail = email THEN <<Head(rows)>> ELSE <<>>)
         \o Filter(Tail(rows), email)

\* app.get("/api/myfiles/:email")
MyFiles(email) ==
  /\ resp' = [Reply("GET /api/myfiles", "myfiles", 200, "")
                EXCEPT !.json = IF filedb.exists THEN Filter(filedb.rows, email) ELSE <<>>]
  /\ UNCHANGED <<clock, store, filedb, inflight>>


\* ------------------------------------------------- Range-Aware File Server
\* String.prototype.replace(/bytes=/, ""): drop the first occurrence
RemoveFirst(s, tok) ==
  IF \E i \in 1..Len(s) : s[i] = tok
  THEN RemoveAt(s, CHOOSE j \in 1..Len(s) : s[j] = tok /\ \A k \in 1..(j - 1) : s[k] # tok)
  ELSE s

\* if (range): undefined and "" are falsy
Truthy(s) == s # UndefinedHdr /\ s # <<>>

Min(a, b) == IF a < b THEN a ELSE b

\* fs.createReadStream(path, {start, end}) validates its options when called:
\* start and end must be integers >= 0 and start <= end, or it throws
ReadStreamThrows(start, end) == start = NaN \/ end = NaN \/ start < 0 \/ end < 0 \/ start > end

\* the bytes a read stream over [start, end] (inclusive) yields: it stops at
\* the end of the file
ReadStream(bytes, start, end) == SubSeq(bytes, start + 1, Min(end, Len(bytes) - 1) + 1)

\* const start = parseInt(parts[0], 10)
RangeStart(parts) == ParseInt(parts[1])

\* RangeEnd with the open end defaulting to the size instead of the last index
RangeEndPastLast(parts, fileSize) ==
  IF Len(parts) >= 2 /\ parts[2] # <<>> THEN ParseInt(parts[2]) ELSE fileSize

\* const end = parts[1] ? parseInt(parts[1], 10) : fileSize - 1
RangeEnd(parts, fileSize) ==
  IF Len(parts) >= 2 /\ parts[2] # <<>> THEN ParseInt(parts[2]) ELSE fileSize - 1

\* the response of the handler app.get("/uploads/:fileName", ...) that streams
StreamResponse(dir, fileName, range) ==
  LET filePath == UPLOAD_DIR \o fileName
  IN  IF fileName \notin DOMAIN dir
      THEN Reply("GET /uploads", "stream", 404, "File not found")
      ELSE
        LET fileSize == Len(dir[fileName])
            parts == Split(RemoveFirst(range, "bytes="), "-")
            start == RangeStart(parts)
            end == RangeEnd(parts, fileSize)
            chunksize == end - start + 1
        IN  IF Truthy(range)
            THEN IF ReadStreamThrows(start, end)
                 THEN \* the exception reaches express's default error handler
                      Reply("GET /uploads", "stream", 500, "Internal Server Error")
                 ELSE [Reply("GET /uploads", "stream", 206, "")
                         EXCEPT !.crange = <<start, end, fileSize>>,
                                !.accept = "bytes",
                                !.clen = chunksize,
                                !.ctype = getMimeType(filePath),
                                !.body = ReadStream(dir[fileName], start, end)]
            ELSE [Reply("GET /uploads", "stream", 200, "")
                    EXCEPT !.clen = fileSize,
                           !.ctype = getMimeType(filePath),
                           !.body = dir[fileName]]

\* the handler invoked on a request for fileName with the given Range header
StreamGet(fileName, range) ==
  /\ resp' = StreamResponse(store, fileName, range)
  /\ UNCHANGED <<clock, store, filedb, inflight>>

\* the response of the handler app.get("/uploads/:filename", ...) registered
\* first: it sets Content-Type and hands the file to res.sendFile, which
\* chooses status, length and body (express, outside this source)
SendFileResponse(filename) ==
  [Reply("GET /uploads", "sendFile", 0, "") EXCEPT !.ctype = <<"mime.lookup">>]

\* the routes in the order the app registers them
Routes ==
  << [method |-> "GET",    path |-> "/api/health",     handler |-> "health"],
     [method |-> "POST",   path |-> "/api/upload",     handler |-> "upload"],
     [method |-> "GET",    path |-> "/api/files",      handler |-> "files"],
     [method |-> "DELETE", path |-> "/api/delete/:",   handler |-> "delete"],
     [method |-> "GET",    path |-> "/uploads/:",      handler |-> "sendFile"],
     [method |-> "GET",    path |-> "/uploads/:",      handler |-> "stream"],
     [method |-> "POST",   path |-> "/api/signup",     handler |-> "signup"],
     [method |-> "POST",   path |-> "/api/login",      handler |-> "login"],
     [method |-> "GET",    path |-> "/api/myfiles/:",  handler |-> "myfiles"],
     [method |-> "POST",   path |-> "/api/feedback/:", handler |-> "feedback"] >>

\* express's router: the first registered route that matches handles the
\* request; neither handler on /uploads/: calls next()
Dispatch(method, path) ==
  LET Match(i) == Routes[i].method = method /\ Routes[i].path = path
      first == CHOOSE i \in 1..Len(Routes) : Match(i) /\ \A j \in 1..(i - 1) : ~Match(j)
  IN  Routes[first].handler

\* GET /uploads/<fileName> as the app serves it
GetUploads(fileName, range) ==
  /\ resp' = IF Dispatch("GET", "/uploads/:") = "stream"
             THEN StreamResponse(store, fileName, range)
             ELSE SendFileResponse(fileName)
  /\ UNCHANGED <<clock, store, filedb, inflight>>

\* ------------------------------------------------------- specifications
\* the keys clients ask for: those of the objects in the store, those named
\* by a descriptor or given to an upload in flight, and one never uploaded
Keys ==
  DOMAIN store
    \cup {filedb.rows[i].storedName : i \in 1..Len(filedb.rows)}
    \cup {inflight[i].filename : i \in {j \in 1..Len(inflight) : inflight[j].hasFile}}
    \cup {<<"n", "o">>}

\* fewer than max uploads have been received
Room(max) == Len(filedb.rows) + Len(inflight) < max

\* the app with its routes as registered
Next ==
  \/ Tick
  \/ \E u \in UploadRequests : Room(MaxUploads) /\ MulterSingle(u)
  \/ \E i \in 1..Len(inflight) : UploadHandler(i)
  \/ \E k \in Keys : Delete(k)
  \/ \E e \in {"u1", "unknown"} : MyFiles(e)
  \/ \E k \in Keys, h \in {UndefinedHdr, <<"bytes=", "0", "-", "0">>} : GetUploads(k, h)

Spec == Init /\ [][Next]_vars

\* the same service with GET /uploads answered by the streaming handler
NextStream ==
  \/ Tick
  \/ \E u \in UploadRequests : Room(MaxStreamUploads) /\ MulterSingle(u)
  \/ \E i \in 1..Len(inflight) : UploadHandler(i)
  \/ \E k \in Keys : Delete(k)
  \/ \E k \in Keys, h \in RangeHeaders : StreamGet(k, h)

SpecStream == Init /\ [][NextStream]_vars


\* ---------------------------------------------------------------- claims
\* Range headers as a client writes them
RangeHeader(start, end) == <<"bytes=">> \o Dec(start) \o <<"-">> \o Dec(end)
OpenRange(start) == <<"bytes=">> \o Dec(start) \o <<"-">>

IsPartial(r, bytes, start, end) ==
  /\ r.status = 206
  /\ r.crange = <<start, end, Len(bytes)>>
  /\ r.accept = "bytes"
  /\ r.clen = end - start + 1
  /\ r.body = SubSeq(bytes, start + 1, end + 1)
  /\ Len(r.body) = r.clen

IsNum(part) == \E n \in RangeNums : part = Dec(n)
Num(part) == CHOOSE n \in RangeNums : part = Dec(n)

\* the start is no non-negative integer below size, or the end is below the start
InvalidRange(a, b, size) ==
  \/ ~IsNum(a)
  \/ Num(a) >= size
  \/ IsNum(b) /\ Num(b) < Num(a)

C5_NoFileRejected ==
  [][/\ \A i \in 1..Len(inflight) :
          (~inflight[i].hasFile /\ UploadHandler(i))
            => (resp'.status = 400 /\ store' = store /\ filedb' = filedb)
     /\ \A u \in UploadRequests :
          (~u.hasFile /\ MulterSingle(u)) => (store' = store /\ filedb' = filedb)]_vars

\* a request without a file part has been answered 400 while the store and
\* the ledger hold an earlier upload
C5_Witness ==
  /\ resp.op = "POST /api/upload"
  /\ resp.status = 400
  /\ Len(filedb.rows) >= 1
  /\ DOMAIN store # {}

\* C6: once no upload is in flight, every object in the store has exactly one
\* descriptor in the ledger whose storedName is the object's key.
C6_OneDescriptorPerObject ==
  inflight = <<>>
    => \A k \in DOMAIN store :
         Cardinality({i \in 1..Len(filedb.rows) : filedb.rows[i].storedName = k}) = 1

\* the timestamp a storage key starts with
KeyStamp(key) == Split(key, "-")[1]

\* C7: uploads with different original filenames ingested at the same
\* millisecond get different storage keys.
C7_DistinctNamesDistinctKeys ==
  \A i \in 1..Len(filedb.rows), j \in 1..Len(filedb.rows) :
    ( /\ i # j
      /\ filedb.rows[i].name # filedb.rows[j].name
      /\ KeyStamp(filedb.rows[i].storedName) = KeyStamp(filedb.rows[j].storedName) )
      => filedb.rows[i].storedName # filedb.rows[j].storedName

\* C8: in every reachable state, every descriptor in the ledger refers to an
\* object that is in the store.
C8_DescriptorsHaveObjects ==
  \A i \in 1..Len(filedb.rows) : filedb.rows[i].storedName \in DOMAIN store

IsPrefix(s, t) == Len(s) <= Len(t) /\ SubSeq(t, 1, Len(s)) = s

\* C9: every step keeps the descriptors the ledger holds, unmodified and in
\* order, and the ledger grows by exactly one descriptor in the steps that
\* answer an upload carrying a file, and by none in any other step.
C9_LedgerAppendOnly ==
  [][/\ IsPrefix(filedb.rows, filedb'.rows)
     /\ Len(filedb'.rows) - Len(filedb.rows) =
          IF \E i \in 1..Len(inflight) :
               inflight[i].hasFile /\ inflight' = RemoveAt(inflight, i)
          THEN 1 ELSE 0]_vars

\* two uploads were in flight together and were answered in the other order
\* than multer named them
C9_Witness ==
  /\ inflight = <<>>
  /\ Len(filedb.rows) = 2
  /\ KeyStamp(filedb.rows[1].storedName) = Dec(2)
  /\ KeyStamp(filedb.rows[2].storedName) = Dec(1)

\* C10: every GET /uploads/<key> is answered by the streaming handler.
C10_StreamingHandlerAnswers ==
  resp.op = "GET /uploads" => resp.by = "stream"

====
